---- MODULE Spec2Model ----
(***************************************************************************)
(* Model of the crawl-and-extract loop of WebsiteAnalyzer (src/app.py)    *)
(* and of the link filter of WebScraper (src/scraper.py).                  *)
(*                                                                         *)
(* Python strings are sequences of one-character strings, so that strip,  *)
(* split, startswith, "in", replace, lower and upper are computed the way  *)
(* the code computes them.  Dictionaries are functions, lists are          *)
(* sequences, sets are sets.                                               *)
(*                                                                         *)
(* A value that is used more than once is bound with Bind, as a Python     *)
(* assignment to a local variable does: Bind(e, LAMBDA x : body) is body   *)
(* with x the value of e, evaluated once.                                  *)
(***************************************************************************)
EXTENDS Integers, Sequences, FiniteSets, TLC

VARIABLES
    visited_urls,        \* self.visited_urls
    base_url,            \* self.base_url
    found_info,          \* self.found_info
    missing_info,        \* self.missing_info
    failed_urls,         \* self.failed_urls
    all_internal_links,  \* self.all_internal_links
    stack,               \* activation records of analyze_website, innermost last
    custom,              \* truthiness of the custom_extraction argument of the run
    result,              \* the value returned by the latest analyze_website call
    fetched,             \* the URLs given to scraper.scrape_website, in order
    oracle_calls,        \* the URLs whose page was given to llm.invoke, in order
    prev_found,          \* found_info before the latest _update_found_info call
    merged_texts,        \* the texts given to _update_found_info, in order
    observed,            \* every <<section, key, value>> the parser assigned
    norm_in,             \* a pair of URLs given to _normalize_url
    norm_out,            \* the pair of their _normalize_url results
    res_in,              \* the arguments and the state read by a _normalize_and_validate_url call
    res_out              \* what that call returned

vars == <<visited_urls, base_url, found_info, missing_info, failed_urls, all_internal_links, stack, custom, result, fetched, oracle_calls, prev_found, merged_texts, observed, norm_in, norm_out, res_in, res_out>>

\* None where a URL is expected: no string, a string being a tuple of characters
NoneVal == <<"None">>

\* the element of a one-element set
The(S) == CHOOSE x \in S : TRUE

\* Body applied to the value of the expression value
Bind(value, Body(_)) == The({Body(x) : x \in {value}})

-----------------------------------------------------------------------------
(* Python str operations *)

UpperAlpha == <<"A","B","C","D","E","F","G","H","I","J","K","L","M","N","O","P","Q","R","S","T","U","V","W","X","Y","Z">>

LowerAlpha == <<"a","b","c","d","e","f","g","h","i","j","k","l","m","n","o","p","q","r","s","t","u","v","w","x","y","z">>

Digits == <<"0","1","2","3","4","5","6","7","8","9">>

Range(s) == {s[i] : i \in 1..Len(s)}

Letters == Range(UpperAlpha) \cup Range(LowerAlpha)

\* str.lower on one character
LowerChar(c) == IF \E i \in 1..26 : UpperAlpha[i] = c THEN LowerAlpha[CHOOSE i \in 1..26 : UpperAlpha[i] = c] ELSE c

\* str.upper on one character
UpperChar(c) == IF \E i \in 1..26 : LowerAlpha[i] = c THEN UpperAlpha[CHOOSE i \in 1..26 : LowerAlpha[i] = c] ELSE c

Lower(s) == [i \in 1..Len(s) |-> LowerChar(s[i])]

Upper(s) == [i \in 1..Len(s) |-> UpperChar(s[i])]

\* s[i:] with a 1-based i
From(s, i) == SubSeq(s, i, Len(s))

\* s.startswith(p)
StartsWith(s, p) == Len(p) <= Len(s) /\ SubSeq(s, 1, Len(p)) = p

Last(s) == s[Len(s)]

\* the least element of a set of numbers, or none when the set is empty
MinOr(S, none) == Bind(S, LAMBDA T : IF T = {} THEN none ELSE CHOOSE x \in T : \A y \in T : x <= y)

\* the greatest element of a set of numbers, or none when the set is empty
MaxOr(S, none) == Bind(S, LAMBDA T : IF T = {} THEN none ELSE CHOOSE x \in T : \A y \in T : x >= y)

\* s.find(sub), 1-based, 0 when absent
Find(sub, s) == MinOr({i \in 1..(Len(s) - Len(sub) + 1) : SubSeq(s, i, i + Len(sub) - 1) = sub}, 0)

\* sub in s
Contains(sub, s) == Find(sub, s) # 0

\* s.split(sep, 1)
SplitOnce(s, sep) ==
    Bind(Find(sep, s), LAMBDA i :
    IF i = 0 THEN <<s>> ELSE <<SubSeq(s, 1, i - 1), From(s, i + Len(sep))>>)

RECURSIVE SplitAll(_, _)
\* s.split(sep)
SplitAll(s, sep) ==
    Bind(Find(sep, s), LAMBDA i :
    IF i = 0 THEN <<s>>
    ELSE Bind(From(s, i + Len(sep)), LAMBDA rest : <<SubSeq(s, 1, i - 1)>> \o SplitAll(rest, sep)))

\* s.lstrip(chars)
LStripChars(s, chars) == From(s, MinOr({i \in 1..Len(s) : s[i] \notin chars}, Len(s) + 1))

\* s.rstrip(chars)
RStripChars(s, chars) == SubSeq(s, 1, MaxOr({i \in 1..Len(s) : s[i] \notin chars}, 0))

\* s.strip(chars)
StripChars(s, chars) == Bind(LStripChars(s, chars), LAMBDA t : RStripChars(t, chars))

Whitespace == {" ", "\n", "\t"}

\* s.strip()
Strip(s) == StripChars(s, Whitespace)

RECURSIVE ReplaceAll(_, _, _)
\* s.replace(old, new): the occurrences left to right, not overlapping
ReplaceAll(s, old, new) ==
    Bind(Find(old, s), LAMBDA i :
    IF i = 0 THEN s
    ELSE Bind(From(s, i + Len(old)), LAMBDA rest : SubSeq(s, 1, i - 1) \o new \o ReplaceAll(rest, old, new)))

RECURSIVE Join(_, _)
\* sep.join(parts)
Join(parts, sep) ==
    IF parts = << >> THEN << >>
    ELSE IF Len(parts) = 1 THEN parts[1]
    ELSE Bind(Tail(parts), LAMBDA rest : parts[1] \o sep \o Join(rest, sep))

\* filter(None, parts)
DropEmpty(parts) == SelectSeq(parts, LAMBDA part : part # << >>)

-----------------------------------------------------------------------------
(* urllib.parse as the code uses it *)

SchemeChars == Letters \cup Range(Digits) \cup {"+", "-", "."}

\* the first index >= i of a character of chars in s, Len(s) + 1 when none
FirstOf(s, chars, i) == MinOr({k \in i..Len(s) : s[k] \in chars}, Len(s) + 1)

\* urlsplit: the scheme, lower-cased, and what follows its colon
SplitScheme(url) ==
    Bind(Find(<<":">>, url), LAMBDA i :
    IF i > 1 /\ url[1] \in Letters /\ \A k \in 1..(i - 1) : url[k] \in SchemeChars
    THEN [scheme |-> Lower(SubSeq(url, 1, i - 1)), rest |-> From(url, i + 1)]
    ELSE [scheme |-> << >>, rest |-> url])

\* urlsplit: the netloc that follows //, up to the first of / ? #
SplitNetloc(rest) ==
    IF StartsWith(rest, <<"/", "/">>)
    THEN Bind(FirstOf(rest, {"/", "?", "#"}, 3), LAMBDA d : [netloc |-> SubSeq(rest, 3, d - 1), rest |-> From(rest, d)])
    ELSE [netloc |-> << >>, rest |-> rest]

\* urlsplit: the path, the fragment and the query split off
PathOf(rest) == Bind(SplitOnce(rest, <<"#">>), LAMBDA parts : SplitOnce(parts[1], <<"?">>)[1])

\* urlparse(url): scheme, netloc and path
UrlParse(url) ==
    Bind(SplitScheme(url), LAMBDA a :
    Bind(SplitNetloc(a.rest), LAMBDA b :
    [scheme |-> a.scheme, netloc |-> b.netloc, path |-> PathOf(b.rest)]))

\* urljoin: the path of the result. A path starting with "/" replaces the
\* base path as it is; a relative one is appended to the directory of the
\* base path and loses its empty middle segments
JoinPath(base_path, path) ==
    Bind(SplitAll(path, <<"/">>), LAMBDA parts :
    IF StartsWith(path, <<"/">>) THEN Join(parts, <<"/">>)
    ELSE Bind(SplitAll(base_path, <<"/">>), LAMBDA base_parts :
         Bind((IF Last(base_parts) # << >> THEN SubSeq(base_parts, 1, Len(base_parts) - 1) ELSE base_parts) \o parts, LAMBDA segments :
         Bind(IF Len(segments) < 2 THEN segments
              ELSE <<segments[1]>> \o DropEmpty(SubSeq(segments, 2, Len(segments) - 1)) \o <<Last(segments)>>, LAMBDA resolved :
         Join(resolved, <<"/">>)))))

\* urljoin(base, url) for an http(s) base and a url free of query, fragment
\* and dot segments
UrlJoin(base, url) ==
    IF url = << >> THEN base
    ELSE Bind(UrlParse(base), LAMBDA b :
         Bind(UrlParse(url), LAMBDA u :
         Bind(IF u.scheme = << >> THEN b.scheme ELSE u.scheme, LAMBDA scheme :
         IF scheme # b.scheme \/ scheme \notin {<<"h","t","t","p">>, <<"h","t","t","p","s">>} THEN url
         ELSE IF u.netloc # << >> THEN scheme \o <<":","/","/">> \o u.netloc \o u.path
         ELSE IF u.path = << >> THEN scheme \o <<":","/","/">> \o b.netloc \o b.path
         ELSE Bind(JoinPath(b.path, u.path), LAMBDA joined :
              scheme \o <<":","/","/">> \o b.netloc \o (IF StartsWith(joined, <<"/">>) THEN joined ELSE <<"/">> \o joined)))))

Quotes == {"'", "\""}

\* WebsiteAnalyzer._clean_url
CleanUrl(url) ==
    Bind(StripChars(url, Quotes), LAMBDA u :
    IF Contains(<<":","/","/">>, u)
    THEN Bind(SplitOnce(u, <<":","/","/">>), LAMBDA parts : parts[1] \o <<":","/","/">> \o ReplaceAll(parts[2], <<"/", "/">>, <<"/">>))
    ELSE u)

\* WebsiteAnalyzer._normalize_url
NormalizeUrl(url) ==
    Bind(CleanUrl(url), LAMBDA cleaned :
    Bind(UrlParse(cleaned), LAMBDA parsed :
    Bind(parsed.scheme \o <<":","/","/">> \o parsed.netloc \o parsed.path, LAMBDA normalized :
    Bind(RStripChars(normalized, {"/"}), LAMBDA stripped :
    Lower(stripped)))))

-----------------------------------------------------------------------------
(* The record accumulator: WebsiteAnalyzer._update_found_info *)

AgencyLevel == "Agency Level"

SiteLevel == "Site Level"

Services == "Services"

Custom == "Custom"

\* the value a dict or a list starts with: {} and [] are both the empty function
Empty == << >>

\* current_section = None
NoSection == "None"

NameKey == <<"N","a","m","e">>

Sentinels == {<<"(","m","i","s","s","i","n","g",")">>, <<"(","n","o","t"," ","m","e","n","t","i","o","n","e","d",")">>, <<"n","o","t"," ","s","p","e","c","i","f","i","e","d">>, <<"n","o","t"," ","a","v","a","i","l","a","b","l","e">>}

\* d[k] = v on a dict
Put(d, k, v) == [x \in (DOMAIN d) \cup {k} |-> IF x = k THEN v ELSE d[x]]

\* an update that leaves only the entries of e
DictReplaced(d, e) == e

\* d.update(e) on dicts
DictUpdate(d, e) == [x \in (DOMAIN d) \cup (DOMAIN e) |-> IF x \in DOMAIN e THEN e[x] ELSE d[x]]

\* the section a line switches to: the first of the header keys, in the
\* order of the sections dict, that the upper-cased line contains
HeaderOf(line) ==
    Bind(Upper(line), LAMBDA upper_line :
    IF Contains(<<"A","G","E","N","C","Y"," ","L","E","V","E","L">>, upper_line) THEN AgencyLevel
    ELSE IF Contains(<<"S","I","T","E"," ","L","E","V","E","L">>, upper_line) THEN SiteLevel
    ELSE IF Contains(<<"S","E","R","V","I","C","E","/","P","R","O","G","R","A","M">>, upper_line) THEN Services
    ELSE NoSection)

\* the filter both branches apply to a value before storing it
Storable(value) == value # << >> /\ Bind(Lower(value), LAMBDA lower_value : lower_value \notin Sentinels)

\* the value a non-service line stores: whole for an hours field holding a
\* time, else cut at its first colon
StoredValue(key, value) ==
    Bind(Lower(key), LAMBDA lower_key :
    IF Contains(<<"h","o","u","r">>, lower_key) /\ Contains(<<":">>, value) THEN value
    ELSE IF Contains(<<":">>, value) THEN SplitOnce(value, <<":">>)[1]
    ELSE value)

\* key, value = line[2:].split(':', 1) and what follows it, for the service
\* numbered n of temp; the unpacking raises when the line has no colon
ServiceField(st, temp, n, field) ==
    Bind(SplitOnce(field, <<":">>), LAMBDA parts :
    IF Len(parts) < 2 THEN [st EXCEPT !.raised = TRUE]
    ELSE Bind(Strip(parts[1]), LAMBDA key :
         Bind(Strip(parts[2]), LAMBDA value :
         IF Storable(value)
         THEN [st EXCEPT !.temp = [temp EXCEPT ![Services][n] = Put(@, key, value)]]
         ELSE [st EXCEPT !.temp = temp])))

\* a line of the Services section; st.section = Services
ServiceLine(st, line) ==
    Bind(IF StartsWith(line, <<"-"," ","N","a","m","e",":">>) THEN [st.temp EXCEPT ![Services] = Append(@, Empty)] ELSE st.temp, LAMBDA temp :
    Bind(Len(temp[Services]), LAMBDA n :
    IF StartsWith(line, <<"-"," ">>) /\ n > 0
    THEN Bind(From(line, 3), LAMBDA field : ServiceField(st, temp, n, field))
    ELSE [st EXCEPT !.temp = temp]))

\* key, value = line.split(':', 1) and what follows it
Field(st, line) ==
    Bind(SplitOnce(line, <<":">>), LAMBDA parts :
    Bind(Strip(parts[1]), LAMBDA key :
    Bind(Strip(parts[2]), LAMBDA value :
    IF ~StartsWith(key, <<"F","i","e","l","d">>) /\ Storable(value)
    THEN Bind(StoredValue(key, value), LAMBDA stored :
         [st EXCEPT !.temp[st.section] = Put(@, key, stored),
                    !.assigned = @ \cup {<<st.section, key, stored>>}])
    ELSE st)))

\* a line of another section, or of none
FieldLine(st, line) ==
    IF Contains(<<":">>, line) /\ ~StartsWith(line, <<"h","t","t","p">>) /\ st.section # NoSection
    THEN Field(st, line)
    ELSE st

\* a line that is not empty: the section header it may hold, then its field
SectionLine(st, line) ==
    Bind(HeaderOf(line), LAMBDA header :
    Bind([st EXCEPT !.section = IF header # NoSection THEN header ELSE @,
                    !.temp = IF header # NoSection /\ header \notin DOMAIN @ THEN Put(@, header, Empty) ELSE @], LAMBDA here :
    IF here.section = Services THEN ServiceLine(here, line) ELSE FieldLine(here, line)))

\* one turn of the loop over new_info.split('\n')
ParseLine(st, raw) ==
    IF st.raised THEN st
    ELSE Bind(Strip(raw), LAMBDA line : IF line = << >> THEN st ELSE SectionLine(st, line))

RECURSIVE ParseLines(_, _)
ParseLines(st, lines) ==
    IF lines = << >> THEN st
    ELSE Bind(ParseLine(st, lines[1]), LAMBDA after :
         Bind(Tail(lines), LAMBDA rest : ParseLines(after, rest)))

\* the first loop of _update_found_info: temp_info, whether the unpacking
\* of a service line raised, and every assignment made to a field of a
\* non-service section
ParseInfo(new_info) ==
    Bind(SplitAll(new_info, <<"\n">>), LAMBDA lines :
    ParseLines([section |-> NoSection, temp |-> Empty, raised |-> FALSE, assigned |-> {}], lines))

\* service.get('Name'): a one-element tuple, or the empty tuple for None
NameOf(service) == IF NameKey \in DOMAIN service THEN <<service[NameKey]>> ELSE << >>

\* a search that finds no service: every parsed service would be appended
ServiceIndexNone(existing, new_service) == 0

\* the index of the first existing service with the name of new_service, 0 when none
ServiceIndex(existing, new_service) ==
    MinOr({i \in 1..Len(existing) : NameOf(existing[i]) = NameOf(new_service)}, 0)

\* an append made whether or not the service exists
AppendAlways(services, service_exists, new_service) == Append(services, new_service)

\* if not service_exists: append
AppendIfNew(services, service_exists, new_service) == IF ~service_exists THEN Append(services, new_service) ELSE services

RECURSIVE MergeServices(_, _)
\* the loop over the parsed services
MergeServices(existing, data) ==
    IF data = << >> THEN existing
    ELSE Bind(data[1], LAMBDA new_service :
         Bind(ServiceIndex(existing, new_service), LAMBDA i :
         Bind(IF i # 0 THEN [existing EXCEPT ![i] = DictUpdate(@, new_service)] ELSE existing, LAMBDA updated :
         Bind(AppendIfNew(updated, i # 0, new_service), LAMBDA services :
         Bind(Tail(data), LAMBDA rest : MergeServices(services, rest))))))

\* whether a parsed value replaces the stored one
Replaces(value, stored) == Len(value) > Len(stored)

\* the loop over the parsed fields of a non-service section
MergeFields(existing, data) ==
    [key \in (DOMAIN existing) \cup (DOMAIN data) |->
        IF key \notin DOMAIN data THEN existing[key]
        ELSE IF key \notin DOMAIN existing \/ Replaces(data[key], existing[key]) THEN data[key]
        ELSE existing[key]]

\* the second loop of _update_found_info
MergeInfo(found, temp_info) ==
    [section \in (DOMAIN found) \cup (DOMAIN temp_info) |->
        IF section \notin DOMAIN temp_info THEN found[section]
        ELSE IF section \notin DOMAIN found
             THEN (IF section = Services THEN MergeServices(Empty, temp_info[section]) ELSE MergeFields(Empty, temp_info[section]))
             ELSE (IF section = Services THEN MergeServices(found[section], temp_info[section]) ELSE MergeFields(found[section], temp_info[section]))]

\* _update_found_info: the record after the call, and whether it raised
UpdateFoundInfo(found, new_info) ==
    Bind(ParseInfo(new_info), LAMBDA parsed :
    IF parsed.raised
    THEN [found |-> found, raised |-> TRUE, assigned |-> {}]
    ELSE [found |-> MergeInfo(found, parsed.temp), raised |-> FALSE, assigned |-> parsed.assigned])

-----------------------------------------------------------------------------
(* WebsiteAnalyzer._analyze_content, after llm.invoke has returned analysis *)

MarkerNewInfo == <<"N","E","W","_","I","N","F","O",":">>

MarkerStillMissing == <<"S","T","I","L","L","_","M","I","S","S","I","N","G",":">>

MarkerNextUrl == <<"N","E","X","T","_","U","R","L",":">>

MarkerExtractedInfo == <<"E","X","T","R","A","C","T","E","D","_","I","N","F","O",":">>

\* analysis.split(first)[1].split(second)[0].strip()
Slice(analysis, first, second) ==
    Bind(SplitAll(analysis, first), LAMBDA after :
    Bind(SplitAll(after[2], second), LAMBDA before : Strip(before[1])))

\* set(item.strip() for item in missing_info.split('\n') if item.strip())
MissingItems(missing_text) ==
    Bind(SplitAll(missing_text, <<"\n">>), LAMBDA items :
    Bind({Strip(items[i]) : i \in 1..Len(items)}, LAMBDA stripped : stripped \ {<< >>}))

\* the custom branch: found_info['Custom'] is created, then the call of
\* self._parse_custom_info raises AttributeError, the class defining no such
\* method
CustomContent(found, missing, analysis) ==
    IF Contains(MarkerExtractedInfo, analysis)
    THEN [found |-> IF Custom \in DOMAIN found THEN found ELSE Put(found, Custom, Empty),
          missing |-> missing, raised |-> TRUE, assigned |-> {}]
    ELSE [found |-> found, missing |-> missing, raised |-> FALSE, assigned |-> {}]

\* the default branch: the merge of the NEW_INFO section
NewInfo(found, analysis) ==
    IF Contains(MarkerNewInfo, analysis)
    THEN Bind(Slice(analysis, MarkerNewInfo, MarkerStillMissing), LAMBDA new_info : UpdateFoundInfo(found, new_info))
    ELSE [found |-> found, raised |-> FALSE, assigned |-> {}]

\* the default branch: the missing set, replaced from the STILL_MISSING section
StillMissing(missing, analysis) ==
    IF Contains(MarkerStillMissing, analysis)
    THEN Bind(Slice(analysis, MarkerStillMissing, MarkerNextUrl), LAMBDA missing_text : MissingItems(missing_text))
    ELSE missing

\* the default branch
DefaultContent(found, missing, analysis) ==
    Bind(NewInfo(found, analysis), LAMBDA upd :
    [found |-> upd.found,
     missing |-> IF upd.raised THEN missing ELSE StillMissing(missing, analysis),
     raised |-> upd.raised,
     assigned |-> upd.assigned])

AnalyzeContent(found, missing, analysis, custom_extraction) ==
    IF custom_extraction THEN CustomContent(found, missing, analysis) ELSE DefaultContent(found, missing, analysis)

-----------------------------------------------------------------------------
(* The link resolver: _extract_next_urls and _normalize_and_validate_url *)

\* the text after NEXT_URL:, its first line, up to a parenthesis
NextUrlValue(analysis) ==
    Bind(SplitAll(analysis, MarkerNextUrl), LAMBDA after :
    Bind(Strip(after[2]), LAMBDA next_url_section :
    Bind(SplitAll(next_url_section, <<"\n">>), LAMBDA lines :
    Bind(SplitAll(lines[1], <<"(">>), LAMBDA parts : Strip(parts[1])))))

IsAbsolute(url) == StartsWith(url, <<"h","t","t","p",":","/","/">>) \/ StartsWith(url, <<"h","t","t","p","s",":","/","/">>)

\* current_context: the first segment of the path of the current URL
CurrentContext(current) ==
    Bind(UrlParse(current).path, LAMBDA current_path :
    Bind(SplitAll(current_path, <<"/">>), LAMBDA segments :
    IF current_path # << >> /\ Len(segments) > 1 THEN segments[2] ELSE << >>))

\* the three candidates of a relative url
RelativeUrls(url, base, current) ==
    Bind(LStripChars(url, {"/"}), LAMBDA direct :
    Bind(CurrentContext(current) \o <<"/">> \o direct, LAMBDA in_context :
    Bind(<<"b","l","o","o","m","i","n","g","t","o","n","/">> \o direct, LAMBDA in_city :
    <<UrlJoin(base, direct), UrlJoin(base, in_context), UrlJoin(base, in_city)>>)))

\* possible_urls, with current the URL that list(self.visited_urls)[-1] gives
PossibleUrls(url, base, current) == IF ~IsAbsolute(url) THEN RelativeUrls(url, base, current) ELSE <<url>>

\* what is compared of a URL: its normal form after the scheme separator
Comparable(url) ==
    Bind(NormalizeUrl(url), LAMBDA normalized :
    Bind(RStripChars(normalized, {"/"}), LAMBDA stripped :
    Bind(SplitAll(stripped, <<":","/","/">>), LAMBDA parts : Last(parts))))

\* either of two compared forms contains the other
EitherContains(a, b) == Contains(a, b) \/ Contains(b, a)

LinkMatches(possible_url, available_link) ==
    Bind(Comparable(possible_url), LAMBDA a :
    Bind(Comparable(available_link), LAMBDA b : EitherContains(a, b)))

\* the netloc of each of a sequence of URLs
Netlocs(urls) == [i \in 1..Len(urls) |-> UrlParse(urls[i]).netloc]

\* a fallback that takes the first candidate whatever its host
SameDomainAny(possible_urls, base) == possible_urls[1]

\* the same-domain fallback: the first candidate on the host of base_url
SameDomain(possible_urls, base) ==
    Bind(UrlParse(base).netloc, LAMBDA base_domain :
    Bind(Netlocs(possible_urls), LAMBDA netlocs :
    Bind(MinOr({i \in 1..Len(netlocs) : netlocs[i] = base_domain}, 0), LAMBDA i :
    IF i = 0 THEN NoneVal ELSE possible_urls[i])))

\* the available links one of the candidates matches
Matching(possible_urls, available_links) ==
    {link \in available_links : \E i \in 1..Len(possible_urls) : LinkMatches(possible_urls[i], link)}

\* the first candidate taken as it is, matched or not, on the host or not
AcceptFirst(url, available_links, base, current) == {PossibleUrls(CleanUrl(url), base, current)[1]}

\* _normalize_and_validate_url for one value of list(self.visited_urls)[-1].
\* available_links is list(self.all_internal_links), a set in any order, so
\* the first link that matches may be any link that matches
ValidateWith(url, available_links, base, current) ==
    Bind(CleanUrl(url), LAMBDA cleaned :
    Bind(PossibleUrls(cleaned, base, current), LAMBDA possible_urls :
    Bind(Matching(possible_urls, available_links), LAMBDA matching :
    IF matching # {} THEN matching ELSE {SameDomain(possible_urls, base)})))

\* the results _normalize_and_validate_url can give: the last element of
\* list(self.visited_urls) may be any visited URL
NormalizeAndValidateUrl(url, available_links, base, visited) ==
    UNION {ValidateWith(url, available_links, base, current) : current \in visited}

\* next_urls for a value of NEXT_URL that is not none
Validated(next_url, available_links, base, visited) ==
    Bind(IF StartsWith(next_url, <<"/">>) THEN UrlJoin(base, next_url) ELSE next_url, LAMBDA joined :
    {IF full_url = NoneVal THEN << >> ELSE <<full_url>> : full_url \in NormalizeAndValidateUrl(joined, available_links, base, visited)})

\* the lists _extract_next_urls can return, as sequences of at most one URL
ExtractNextUrls(analysis, available_links, base, visited) ==
    Bind(NextUrlValue(analysis), LAMBDA next_url :
    Bind(Lower(next_url), LAMBDA lower_url :
    IF lower_url = <<"n","o","n","e">> THEN {<< >>} ELSE Validated(next_url, available_links, base, visited)))

-----------------------------------------------------------------------------
(* WebScraper.scrape_website: the links kept of a page's hrefs *)

SkippedHref(href) == StartsWith(href, <<"#">>) \/ StartsWith(href, <<"j","a","v","a","s","c","r","i","p","t",":">>) \/ StartsWith(href, <<"m","a","i","l","t","o",":">>) \/ StartsWith(href, <<"t","e","l",":">>)

ResolveHref(url, href) ==
    IF StartsWith(href, <<"/", "/">>) THEN <<"h","t","t","p","s",":">> \o href
    ELSE IF StartsWith(href, <<"/">>) THEN Bind(UrlParse(url), LAMBDA parsed : parsed.scheme \o <<":","/","/">> \o parsed.netloc \o href)
    ELSE IF ~IsAbsolute(href) THEN UrlJoin(url, href)
    ELSE href

\* the hrefs kept: not empty and not of a skipped kind, each resolved
Resolved(url, hrefs) == {ResolveHref(url, hrefs[i]) : i \in {k \in 1..Len(hrefs) : hrefs[k] # << >> /\ ~SkippedHref(hrefs[k])}}

\* metadata['internal_links'], as the set all_internal_links.update adds
InternalLinks(url, hrefs) ==
    Bind(UrlParse(url).netloc, LAMBDA domain :
    Bind(Resolved(url, hrefs), LAMBDA links :
    {link \in links : UrlParse(link).netloc = domain}))

-----------------------------------------------------------------------------
(* The report: what _format_final_results and _format_custom_results print *)

ServiceFieldOrder == <<<<"N","a","m","e">>, <<"A","K","A"," ","N","a","m","e","s">>, <<"P","h","o","n","e"," ","N","u","m","b","e","r","s">>, <<"D","e","s","c","r","i","p","t","i","o","n">>, <<"D","a","y","s","/","H","o","u","r","s"," ","o","f"," ","O","p","e","r","a","t","i","o","n">>, <<"E","l","i","g","i","b","i","l","i","t","y">>, <<"G","e","o","g","r","a","p","h","i","c"," ","A","r","e","a"," ","S","e","r","v","e","d">>, <<"D","o","c","u","m","e","n","t","s"," ","R","e","q","u","i","r","e","d">>, <<"A","p","p","l","i","c","a","t","i","o","n","/","I","n","t","a","k","e"," ","P","r","o","c","e","s","s">>, <<"F","e","e","s","/","P","a","y","m","e","n","t"," ","O","p","t","i","o","n","s">>, <<"T","a","x","o","n","o","m","y"," ","T","e","r","m","s"," ","(","S","e","r","v","i","c","e","s","/","T","a","r","g","e","t","s",")">>>>

AllFound == <<"A","l","l"," ","m","a","n","d","a","t","o","r","y"," ","i","n","f","o","r","m","a","t","i","o","n"," ","f","o","u","n","d">>

\* the lines printed for one service: its fields among the canonical ones
PrintedService(service) == [key \in (DOMAIN service) \cap Range(ServiceFieldOrder) |-> service[key]]

\* every item of the missing set printed
PrintedMissingAll(missing) == {Strip(item) : item \in missing}

\* the items printed under MISSING INFORMATION
PrintedMissing(missing) == {Strip(item) : item \in {x \in missing : ~Contains(<<":">>, x)}}

FormatFinalResults(found, missing, visited) ==
    [sections |-> [section \in {AgencyLevel, SiteLevel} \cap DOMAIN found |-> found[section]],
     services |-> IF Services \in DOMAIN found THEN [i \in 1..Len(found[Services]) |-> PrintedService(found[Services][i])] ELSE << >>,
     missing |-> Bind(PrintedMissing(missing), LAMBDA items : IF items # {} THEN items ELSE {AllFound}),
     sources |-> visited]

FormatCustomResults(found, visited) ==
    [sections |-> [section \in {Custom} \cap DOMAIN found |-> found[section]],
     services |-> << >>,
     missing |-> {},
     sources |-> visited]

-----------------------------------------------------------------------------
(* Bounds and the inputs the environment may give *)

\* the largest depth argument of the outermost call
MaxDepth == 2

\* the most texts merged in a row by the accumulator alone
MaxMerges == 3

\* the longest URL given to _normalize_url
MaxUrlLen == 14

\* the URLs the user may enter
StartUrls == {<<"h","t","t","p",":","/","/","h","/","a">>, <<"h","t","t","p",":","/","/","h","/","s","/","p">>}

HrefsNone == << >>

HrefsMixed == <<<<"/","s","/","c">>, <<"h","t","t","p",":","/","/","x","/","e">>, <<"#","t","o","p">>, <<"d">>, <<"/","/","h","/","b">>>>

\* the href lists a fetched page may hold
PagePool == {HrefsNone, HrefsMixed}

\* a well-formed answer whose next URL is a path from the root
OutAgency == <<"N","E","W","_","I","N","F","O",":","\n","A","g","e","n","c","y"," ","L","e","v","e","l",":","\n","-"," ","A","g","e","n","c","y"," ","N","a","m","e",":"," ","C","a","r","e","\n","S","T","I","L","L","_","M","I","S","S","I","N","G",":","\n","S","i","t","e"," ","L","e","v","e","l",":"," ","N","a","m","e","\n","h","o","u","r","s","\n","N","E","X","T","_","U","R","L",":"," ","/","b">>

\* a service line without a colon
OutMalformed == <<"N","E","W","_","I","N","F","O",":","\n","S","e","r","v","i","c","e","/","P","r","o","g","r","a","m"," ","L","e","v","e","l",":","\n","-"," ","N","a","m","e",":"," ","F","o","o","d"," ","B","a","n","k","\n","-"," ","c","a","l","l"," ","u","s","\n","S","T","I","L","L","_","M","I","S","S","I","N","G",":","\n","p","h","o","n","e","\n","N","E","X","T","_","U","R","L",":"," ","/","b">>

\* NEXT_URL: with nothing but commentary after it
OutEmptyNext == <<"N","E","W","_","I","N","F","O",":","\n","S","i","t","e"," ","L","e","v","e","l",":","\n","-"," ","N","a","m","e",":"," ","M","a","i","n","\n","S","T","I","L","L","_","M","I","S","S","I","N","G",":","\n","N","E","X","T","_","U","R","L",":"," ","(","n","o"," ","m","o","r","e"," ","p","a","g","e","s",")">>

\* NEXT_URL: none, capitalised and on the next line
OutNone == <<"N","E","W","_","I","N","F","O",":","\n","S","T","I","L","L","_","M","I","S","S","I","N","G",":","\n","f","a","x","\n","N","E","X","T","_","U","R","L",":","\n","N","o","n","e"," ","(","d","o","n","e",")">>

\* no marker at all
OutNoMarker == <<"I"," ","c","o","u","l","d"," ","n","o","t"," ","r","e","a","d"," ","t","h","i","s"," ","p","a","g","e",".">>

\* an answer in the custom format
OutCustom == <<"E","X","T","R","A","C","T","E","D","_","I","N","F","O",":","\n","P","h","o","n","e",":"," ","5","5","5","\n","N","E","X","T","_","U","R","L",":"," ","/","b">>

\* a relative next URL and no STILL_MISSING: marker
OutRelative == <<"N","E","W","_","I","N","F","O",":","\n","S","i","t","e"," ","L","e","v","e","l",":","\n","-"," ","N","a","m","e",":"," ","A","n","n","e","x","\n","N","E","X","T","_","U","R","L",":"," ","c">>

\* a next URL on another host, and nothing missing but fields named with
\* their section
OutOtherHost == <<"S","T","I","L","L","_","M","I","S","S","I","N","G",":","\n","A","g","e","n","c","y"," ","L","e","v","e","l",":"," ","P","h","o","n","e","\n","S","i","t","e"," ","L","e","v","e","l",":"," ","N","a","m","e","\n","N","E","X","T","_","U","R","L",":"," ","h","t","t","p",":","/","/","x","/","e">>

\* the answers the oracle may give
OraclePool == {OutAgency, OutMalformed, OutEmptyNext, OutNone, OutNoMarker, OutCustom, OutRelative, OutOtherHost}

TextFoodPhone == <<"S","e","r","v","i","c","e","/","P","r","o","g","r","a","m"," ","L","e","v","e","l",":","\n","-"," ","N","a","m","e",":"," ","F","o","o","d"," ","B","a","n","k","\n","-"," ","P","h","o","n","e"," ","N","u","m","b","e","r","s",":"," ","5","5","5","-","1","1","1","1">>

TextFoodDescription == <<"S","e","r","v","i","c","e","/","P","r","o","g","r","a","m"," ","L","e","v","e","l",":","\n","-"," ","N","a","m","e",":"," ","F","o","o","d"," ","B","a","n","k","\n","-"," ","D","e","s","c","r","i","p","t","i","o","n",":"," ","P","r","o","v","i","d","e","s"," ","g","r","o","c","e","r","i","e","s","\n","-"," ","E","l","i","g","i","b","i","l","i","t","y",":"," ","n","o","t"," ","s","p","e","c","i","f","i","e","d">>

TextTwoServices == <<"S","e","r","v","i","c","e","/","P","r","o","g","r","a","m"," ","L","e","v","e","l",":","\n","-"," ","N","a","m","e",":"," ","S","h","e","l","t","e","r","\n","-"," ","F","e","e","s",":"," ","f","r","e","e","\n","-"," ","N","a","m","e",":"," ","F","o","o","d"," ","B","a","n","k","\n","-"," ","P","h","o","n","e"," ","N","u","m","b","e","r","s",":"," ","5","5","5","-","2","2","2","2","\n","-"," ","N","a","m","e",":"," ","S","h","e","l","t","e","r","\n","-"," ","F","e","e","s",":"," ","n","o","n","e">>

TextNameless == <<"S","e","r","v","i","c","e","/","P","r","o","g","r","a","m"," ","L","e","v","e","l",":","\n","-"," ","N","a","m","e",":"," ","(","m","i","s","s","i","n","g",")","\n","-"," ","F","e","e","s",":"," ","l","o","w","\n","-"," ","N","a","m","e"," ",":"," ","S","h","e","l","t","e","r">>

TextAgencyShort == <<"A","g","e","n","c","y"," ","L","e","v","e","l",":","\n","-"," ","L","e","g","a","l"," ","S","t","a","t","u","s",":"," ","L","L","C","\n","-"," ","H","o","u","r","s",":"," ","9",":","0","0","\n","S","i","t","e"," ","L","e","v","e","l",":","\n","-"," ","N","a","m","e",":"," ","M","a","i","n">>

TextAgencyLong == <<"A","g","e","n","c","y"," ","L","e","v","e","l",":","\n","-"," ","L","e","g","a","l"," ","S","t","a","t","u","s",":"," ","N","o","n","p","r","o","f","i","t","\n","-"," ","L","e","g","a","l"," ","S","t","a","t","u","s",":"," ","I","n","c","\n","-"," ","P","h","o","n","e",":"," ","(","M","i","s","s","i","n","g",")">>

TextAgencyTie == <<"A","g","e","n","c","y"," ","L","e","v","e","l",":","\n","-"," ","L","e","g","a","l"," ","S","t","a","t","u","s",":"," ","P","B","C">>

TextSentinelColon == <<"A","g","e","n","c","y"," ","L","e","v","e","l",":","\n","-"," ","L","e","g","a","l"," ","S","t","a","t","u","s",":"," ","n","o","t"," ","s","p","e","c","i","f","i","e","d",":"," ","s","e","e"," ","s","i","t","e","\n","F","i","e","l","d"," ","1",":"," ","x">>

\* the texts given to _update_found_info when it is exercised alone
TextPool == {TextFoodPhone, TextFoodDescription, TextTwoServices, TextNameless, TextAgencyShort, TextAgencyLong, TextAgencyTie, TextSentinelColon}

\* the values of NEXT_URL given to _normalize_and_validate_url: on another
\* host, on the host in capitals, relative, unknown on the host, quoted
ResolveUrls == {<<"h","t","t","p",":","/","/","x","/","e">>, <<"h","t","t","p",":","/","/","H","/","B">>, <<"c">>, <<"h","t","t","p",":","/","/","h","/","z","z","z">>, <<"'","h","t","t","p",":","/","/","h","/","b","'">>, <<"s","/","c","/">>}

\* the links self.all_internal_links may hold when it is called
ResolveLinks == {<<"h","t","t","p",":","/","/","h","/","B","/">>, <<"h","t","t","p",":","/","/","h","/","s","/","c">>, <<"h","t","t","p",":","/","/","x","/","e","/","f">>}

\* the values self.base_url may have
ResolveBases == {<<"h","t","t","p",":","/","/","h">>, <<"h","t","t","p",":","/","/","x">>}

\* the URLs list(self.visited_urls)[-1] may give
ResolveCurrents == {<<"h","t","t","p",":","/","/","h","/","a">>, <<"h","t","t","p",":","/","/","h","/","s","/","p">>}

\* the URLs whose variants are given to _normalize_url
NormPool == {<<"h","t","t","p",":","/","/","h","/","a","/","b">>, <<"h","t","t","p",":","/","/","h">>}

-----------------------------------------------------------------------------
(* State *)

NoResult == [status |-> "none"]

InitAnalyzer ==
    /\ visited_urls = {}
    /\ base_url = NoneVal
    /\ found_info = Empty
    /\ missing_info = {}
    /\ failed_urls = {}
    /\ all_internal_links = {}

InitCrawl ==
    /\ stack = << >>
    /\ custom = FALSE
    /\ result = NoResult
    /\ fetched = << >>
    /\ oracle_calls = << >>

InitMerge ==
    /\ prev_found = Empty
    /\ merged_texts = << >>
    /\ observed = {}

InitNorm ==
    /\ norm_in = << << >>, << >> >>
    /\ norm_out = << << >>, << >> >>

InitResolve ==
    /\ res_in = [url |-> << >>, links |-> {}, base |-> NoneVal, current |-> NoneVal]
    /\ res_out = NoneVal

analyzerVars == <<visited_urls, base_url, found_info, missing_info, failed_urls, all_internal_links>>

crawlVars == <<stack, custom, result, fetched, oracle_calls>>

mergeVars == <<prev_found, merged_texts, observed>>

normVars == <<norm_in, norm_out>>

resolveVars == <<res_in, res_out>>

-----------------------------------------------------------------------------
(* analyze_website *)

Top == stack[Len(stack)]

Pop == SubSeq(stack, 1, Len(stack) - 1)

Frame(url, depth) == [url |-> url, depth |-> depth, pc |-> "call", out |-> NoneVal, resolved |-> << >>, next |-> NoneVal, snap |-> Empty,
                      page |-> {}, links |-> {}]

\* a guard that lets a call with depth 0 through
ShouldSkipBelowZero(url, depth) == depth < 0 \/ url \in visited_urls \/ url \in failed_urls

\* the guard of line 138
ShouldSkip(url, depth) == depth <= 0 \/ url \in visited_urls \/ url \in failed_urls

\* a visit that leaves the visited set as it was
VisitedNotMarked(url) == visited_urls

\* line 144: the URL is marked visited before anything is fetched
VisitedAfter(url) == visited_urls \cup {url}

\* a base URL taken again from every URL visited
BaseOfLatest(url) == Bind(UrlParse(url), LAMBDA parsed_url : parsed_url.scheme \o <<":","/","/">> \o parsed_url.netloc)

\* lines 146-148: the base URL the visit of url leaves
BaseAfter(url) ==
    IF base_url = NoneVal THEN Bind(UrlParse(url), LAMBDA parsed_url : parsed_url.scheme \o <<":","/","/">> \o parsed_url.netloc)
    ELSE base_url

\* a failure that passes to the calls waiting for the visit that raised
FailedAfterAll(frames) == failed_urls \cup {frames[i].url : i \in 1..Len(frames)}

\* the except clause, line 178: the failed set after the visit of the top
\* frame raised
FailedAfter(frames) == failed_urls \cup {frames[Len(frames)].url}

\* the user's call: analyze_website(url, custom_extraction, depth)
Start(url, custom_extraction, depth) ==
    /\ stack = << >>
    /\ result = NoResult
    /\ stack' = <<Frame(url, depth)>>
    /\ custom' = custom_extraction
    /\ UNCHANGED <<analyzerVars, result, fetched, oracle_calls, mergeVars, normVars, resolveVars>>

\* lines 138-142: the call returns at once
Skip ==
    /\ stack # << >>
    /\ Top.pc = "call"
    /\ ShouldSkip(Top.url, Top.depth)
    /\ stack' = Pop
    /\ result' = [status |-> "skipped", url |-> Top.url, cause |-> "none", out |-> NoneVal,
                  analysis |-> FormatFinalResults(found_info, missing_info, visited_urls)]
    /\ UNCHANGED <<analyzerVars, custom, fetched, oracle_calls, mergeVars, normVars, resolveVars>>

\* what the except clause returns
Failure(url, cause, out, found, visited) ==
    [status |-> "error", url |-> url, cause |-> cause, out |-> out,
     analysis |-> FormatFinalResults(found, missing_info, visited)]

\* lines 144-151 and 177-182: scrape_website raises
FetchFails ==
    /\ stack # << >>
    /\ Top.pc = "call"
    /\ ~ShouldSkip(Top.url, Top.depth)
    /\ visited_urls' = VisitedAfter(Top.url)
    /\ base_url' = BaseAfter(Top.url)
    /\ fetched' = Append(fetched, Top.url)
    /\ failed_urls' = FailedAfter(stack)
    /\ stack' = Pop
    /\ result' = Failure(Top.url, "fetch", NoneVal, found_info, visited_urls')
    /\ UNCHANGED <<found_info, missing_info, all_internal_links, custom, oracle_calls, mergeVars, normVars, resolveVars>>

\* lines 144-158 and 177-182: the page is fetched and llm.invoke raises
OracleFails(hrefs) ==
    /\ stack # << >>
    /\ Top.pc = "call"
    /\ ~ShouldSkip(Top.url, Top.depth)
    /\ visited_urls' = VisitedAfter(Top.url)
    /\ base_url' = BaseAfter(Top.url)
    /\ fetched' = Append(fetched, Top.url)
    /\ all_internal_links' = all_internal_links \cup InternalLinks(Top.url, hrefs)
    /\ oracle_calls' = Append(oracle_calls, Top.url)
    /\ failed_urls' = FailedAfter(stack)
    /\ stack' = Pop
    /\ result' = Failure(Top.url, "oracle", NoneVal, found_info, visited_urls')
    /\ UNCHANGED <<found_info, missing_info, custom, mergeVars, normVars, resolveVars>>

\* lines 144-158 and 177-182: the oracle answers and _analyze_content raises
AnalysisFails(hrefs, analysis) ==
    /\ stack # << >>
    /\ Top.pc = "call"
    /\ ~ShouldSkip(Top.url, Top.depth)
    /\ \E content \in {AnalyzeContent(found_info, missing_info, analysis, custom)} :
          /\ content.raised
          /\ found_info' = content.found
    /\ visited_urls' = VisitedAfter(Top.url)
    /\ base_url' = BaseAfter(Top.url)
    /\ fetched' = Append(fetched, Top.url)
    /\ all_internal_links' = all_internal_links \cup InternalLinks(Top.url, hrefs)
    /\ oracle_calls' = Append(oracle_calls, Top.url)
    /\ failed_urls' = FailedAfter(stack)
    /\ stack' = Pop
    /\ result' = Failure(Top.url, "analysis", analysis, found_info', visited_urls')
    /\ UNCHANGED <<missing_info, custom, mergeVars, normVars, resolveVars>>

\* line 164: the lists next_urls may be, after the state of lines 144-158
NextUrls(analysis, links) ==
    IF Contains(MarkerNextUrl, analysis)
    THEN ExtractNextUrls(analysis, links, base_url', visited_urls')
    ELSE {<< >>}

\* a page whose own links are all that is passed on
PageLinksOnly(page_links) == page_links

\* lines 154-157: the list that takes the place of the links of the page in
\* scraped_data, and goes to the oracle and to _extract_next_urls
OfferedLinks(page_links) == all_internal_links \cup page_links

\* scraped_data of the frame that fetched: the links scrape_website gave and
\* the list of line 157
Scraped(frames, page_links, links) ==
    [frames EXCEPT ![Len(stack)] = [@ EXCEPT !.page = page_links, !.links = links]]

\* a recursion made with depth in place of depth - 1
FollowSameDepth(analysis, next_urls) ==
    Bind(next_urls # << >> /\ next_urls[1] \notin visited_urls' /\ next_urls[1] \notin failed_urls, LAMBDA follow :
    Bind([Top EXCEPT !.pc = "return", !.out = analysis, !.resolved = next_urls,
                     !.next = IF follow THEN next_urls[1] ELSE NoneVal,
                     !.snap = found_info'], LAMBDA me :
    Pop \o <<me>> \o (IF follow THEN <<Frame(next_urls[1], Top.depth)>> ELSE << >>)))

\* a recursion made for every resolved URL, visited or failed before or not
FollowAlways(analysis, next_urls) ==
    Bind(next_urls # << >>, LAMBDA follow :
    Bind([Top EXCEPT !.pc = "return", !.out = analysis, !.resolved = next_urls,
                     !.next = IF follow THEN next_urls[1] ELSE NoneVal,
                     !.snap = found_info'], LAMBDA me :
    Pop \o <<me>> \o (IF follow THEN <<Frame(next_urls[1], Top.depth - 1)>> ELSE << >>)))

\* lines 165-170: the frame waits for the call of next_url, made with
\* depth - 1 when next_url is new
Follow(analysis, next_urls) ==
    Bind(next_urls # << >> /\ next_urls[1] \notin visited_urls' /\ next_urls[1] \notin failed_urls, LAMBDA follow :
    Bind([Top EXCEPT !.pc = "return", !.out = analysis, !.resolved = next_urls,
                     !.next = IF follow THEN next_urls[1] ELSE NoneVal,
                     !.snap = found_info'], LAMBDA me :
    Pop \o <<me>> \o (IF follow THEN <<Frame(next_urls[1], Top.depth - 1)>> ELSE << >>)))

\* lines 144-170: the page is fetched, analysed and merged, and the next
\* URL, if one is resolved and is new, is called with depth - 1
Extracted(hrefs, analysis) ==
    /\ stack # << >>
    /\ Top.pc = "call"
    /\ ~ShouldSkip(Top.url, Top.depth)
    /\ \E content \in {AnalyzeContent(found_info, missing_info, analysis, custom)} :
          /\ ~content.raised
          /\ found_info' = content.found
          /\ missing_info' = content.missing
    /\ visited_urls' = VisitedAfter(Top.url)
    /\ base_url' = BaseAfter(Top.url)
    /\ fetched' = Append(fetched, Top.url)
    /\ oracle_calls' = Append(oracle_calls, Top.url)
    /\ \E page_links \in {InternalLinks(Top.url, hrefs)} :
          /\ all_internal_links' = all_internal_links \cup page_links
          /\ \E links \in {OfferedLinks(page_links)} :
                \E next_urls \in NextUrls(analysis, links) :
                   stack' = Scraped(Follow(analysis, next_urls), page_links, links)
    /\ UNCHANGED <<failed_urls, custom, result, mergeVars, normVars, resolveVars>>

\* lines 172-175: the recursion is over and the call returns its report
Return ==
    /\ stack # << >>
    /\ Top.pc = "return"
    /\ stack' = Pop
    /\ result' = [status |-> "ok", url |-> Top.url, cause |-> "none", out |-> Top.out,
                  analysis |-> IF custom THEN FormatCustomResults(found_info, visited_urls)
                               ELSE FormatFinalResults(found_info, missing_info, visited_urls)]
    /\ UNCHANGED <<analyzerVars, custom, fetched, oracle_calls, mergeVars, normVars, resolveVars>>

Init == InitAnalyzer /\ InitCrawl /\ InitMerge /\ InitNorm /\ InitResolve

Next ==
    \/ \E url \in StartUrls, custom_extraction \in BOOLEAN, depth \in -1..MaxDepth : Start(url, custom_extraction, depth)
    \/ Skip
    \/ FetchFails
    \/ \E hrefs \in PagePool : OracleFails(hrefs)
    \/ \E hrefs \in PagePool, analysis \in OraclePool : AnalysisFails(hrefs, analysis)
    \/ \E hrefs \in PagePool, analysis \in OraclePool : Extracted(hrefs, analysis)
    \/ Return

\* one crawl of a fresh analyzer, as main() runs it
Spec == Init /\ [][Next]_vars

-----------------------------------------------------------------------------
(* The accumulator alone: texts merged one after another *)

\* one call of _update_found_info
Merge(new_info) ==
    /\ Len(merged_texts) < MaxMerges
    /\ \E upd \in {UpdateFoundInfo(found_info, new_info)} :
          /\ found_info' = upd.found
          /\ observed' = observed \cup upd.assigned
    /\ prev_found' = found_info
    /\ merged_texts' = Append(merged_texts, new_info)
    /\ UNCHANGED <<visited_urls, base_url, missing_info, failed_urls, all_internal_links, crawlVars, normVars, resolveVars>>

NextMerge == \E new_info \in TextPool : Merge(new_info)

SpecMerge == Init /\ [][NextMerge]_vars

-----------------------------------------------------------------------------
(* The normalizer alone: a URL and a variant of it *)

Normalized(pair) == <<NormalizeUrl(pair[1]), NormalizeUrl(pair[2])>>

Unquoted(url) == url # << >> /\ url[1] \notin Quotes

\* a URL is chosen; the variant starts equal to it
NormChoose(url) ==
    /\ norm_in = << << >>, << >> >>
    /\ norm_in' = <<url, url>>
    /\ norm_out' = Normalized(norm_in')
    /\ UNCHANGED <<analyzerVars, crawlVars, mergeVars, resolveVars>>

\* the variant gets a letter in upper case
NormUpper(i) ==
    /\ Unquoted(norm_in[2])
    /\ i \in 1..Len(norm_in[2])
    /\ norm_in[2][i] \in Range(LowerAlpha)
    /\ norm_in' = <<norm_in[1], [norm_in[2] EXCEPT ![i] = UpperChar(@)]>>
    /\ norm_out' = Normalized(norm_in')
    /\ UNCHANGED <<analyzerVars, crawlVars, mergeVars, resolveVars>>

\* the variant gets one more slash next to a slash of the part after ://
NormSlash(i) ==
    /\ Unquoted(norm_in[2])
    /\ Len(norm_in[2]) < MaxUrlLen
    /\ i \in 1..Len(norm_in[2])
    /\ i >= Find(<<":","/","/">>, norm_in[2]) + 3
    /\ norm_in[2][i] = "/"
    /\ norm_in' = <<norm_in[1], SubSeq(norm_in[2], 1, i) \o <<"/">> \o From(norm_in[2], i + 1)>>
    /\ norm_out' = Normalized(norm_in')
    /\ UNCHANGED <<analyzerVars, crawlVars, mergeVars, resolveVars>>

\* the variant gets a trailing slash
NormTrailing ==
    /\ Unquoted(norm_in[2])
    /\ Len(norm_in[2]) < MaxUrlLen
    /\ Last(norm_in[2]) # "/"
    /\ norm_in' = <<norm_in[1], norm_in[2] \o <<"/">> >>
    /\ norm_out' = Normalized(norm_in')
    /\ UNCHANGED <<analyzerVars, crawlVars, mergeVars, resolveVars>>

\* the variant is put between quotes
NormQuote(q) ==
    /\ Unquoted(norm_in[2])
    /\ norm_in' = <<norm_in[1], <<q>> \o norm_in[2] \o <<q>> >>
    /\ norm_out' = Normalized(norm_in')
    /\ UNCHANGED <<analyzerVars, crawlVars, mergeVars, resolveVars>>

NextNorm ==
    \/ \E url \in NormPool : NormChoose(url)
    \/ \E i \in 1..MaxUrlLen : NormUpper(i)
    \/ \E i \in 1..MaxUrlLen : NormSlash(i)
    \/ NormTrailing
    \/ \E q \in Quotes : NormQuote(q)

SpecNorm == Init /\ [][NextNorm]_vars

-----------------------------------------------------------------------------
(* The link resolver alone: one call of _normalize_and_validate_url *)

\* the call returns one of the values it can return
Resolve(url, links, base, current) ==
    /\ res_in.base = NoneVal
    /\ res_in' = [url |-> url, links |-> links, base |-> base, current |-> current]
    /\ res_out' \in ValidateWith(url, links, base, current)
    /\ UNCHANGED <<analyzerVars, crawlVars, mergeVars, normVars>>

NextResolve ==
    \E url \in ResolveUrls, links \in SUBSET ResolveLinks, base \in ResolveBases, current \in ResolveCurrents :
        Resolve(url, links, base, current)

SpecResolve == Init /\ [][NextResolve]_vars

-----------------------------------------------------------------------------
(* Properties of the crawl *)

\* C1: a call of analyze_website with depth <= 0 returns at once with the
\* status skipped; nothing is fetched, the oracle is not called, and
\* visited_urls, failed_urls, all_internal_links, base_url, found_info and
\* missing_info are what they were
C1_DepthExhausted ==
    [][(stack # << >> /\ Top.pc = "call" /\ Top.depth <= 0) =>
          /\ stack' = Pop
          /\ result'.status = "skipped"
          /\ result'.url = Top.url
          /\ UNCHANGED <<visited_urls, failed_urls, all_internal_links, base_url, found_info, missing_info>>
          /\ UNCHANGED <<fetched, oracle_calls>>]_vars

\* a call was skipped for its depth alone, in the middle of a crawl that
\* had merged a page: its URL is neither visited nor failed
C1_SkippedInCrawl ==
    /\ result.status = "skipped"
    /\ result.url \notin visited_urls \cup failed_urls
    /\ visited_urls # {}
    /\ found_info # Empty

\* C2: when the fetch of B, the next URL of a page A that was fetched and
\* merged, has raised, B is in failed_urls, A is not and does not get
\* there, found_info is what it was after the merge of A, and the call of
\* A returns normally a report that holds every section merged from A
C2_FailureIsolation ==
    [][(stack # << >> /\ Top.pc = "return" /\ result.status = "error" /\ result.cause = "fetch" /\ result.url = Top.next) =>
          /\ Top.next \in failed_urls
          /\ Top.url \notin failed_urls
          /\ found_info = Top.snap
          /\ stack' = Pop
          /\ failed_urls' = failed_urls
          /\ result'.status = "ok"
          /\ result'.url = Top.url
          /\ \A section \in (DOMAIN Top.snap) \ {Services} :
                /\ section \in DOMAIN result'.analysis.sections
                /\ result'.analysis.sections[section] = Top.snap[section]
          /\ Services \in DOMAIN Top.snap =>
                result'.analysis.services = [i \in 1..Len(Top.snap[Services]) |-> PrintedService(Top.snap[Services][i])]]_vars

\* the call of A has returned its report with a section merged from A,
\* after the fetch of its next URL failed: two fetches, one oracle call
C2_ReturnedAfterFailure ==
    /\ stack = << >>
    /\ result.status = "ok"
    /\ Len(fetched) = 2
    /\ oracle_calls = <<result.url>>
    /\ fetched[1] = result.url
    /\ failed_urls = {fetched[2]}
    /\ AgencyLevel \in DOMAIN result.analysis.sections
    /\ result.analysis.sections[AgencyLevel] # Empty

\* C3: without a custom query, the visit of a page that was fetched and
\* answered by the oracle never ends in the except clause, whatever the
\* answer holds: a service line without a colon only loses its own update
C3_ParseProblemDegrades == (~custom /\ result.status = "error") => result.cause \in {"fetch", "oracle"}

\* C6: with a custom query, an answer holding EXTRACTED_INFO: never makes the
\* visit of its page fail, and the Custom section it creates holds the
\* pairs parsed from it
C6_CustomExtraction ==
    custom =>
        /\ ~(result.status = "error" /\ Contains(MarkerExtractedInfo, result.out))
        /\ Custom \in DOMAIN found_info => found_info[Custom] # Empty

\* C7: a page whose answer has no NEXT_URL: marker, or an empty value after
\* it, or none in any letter case, resolves no URL and calls no visit
C7_NextUrlSoftFailure ==
    \A i \in 1..Len(stack) :
        (/\ stack[i].pc = "return"
         /\ IF ~Contains(MarkerNextUrl, stack[i].out) THEN TRUE
            ELSE Bind(NextUrlValue(stack[i].out), LAMBDA next_url : next_url = << >> \/ Lower(next_url) = <<"n","o","n","e">>))
        => (stack[i].resolved = << >> /\ stack[i].next = NoneVal)

-----------------------------------------------------------------------------
(* Properties of the accumulator *)

\* the services parsed from a text, none when the parse raised
ParsedServices(new_info) ==
    Bind(ParseInfo(new_info), LAMBDA parsed :
    IF ~parsed.raised /\ Services \in DOMAIN parsed.temp THEN parsed.temp[Services] ELSE << >>)

\* the services of a record
ServicesOf(found) == IF Services \in DOMAIN found THEN found[Services] ELSE << >>

\* the names of a sequence of services
Names(services) == {NameOf(services[i]) : i \in 1..Len(services)}

\* now is before with parsed merged by name: the entries of before keep
\* their places and names, each new name adds one entry, and a field holds
\* the value of the last parsed service of that name that has it, or else
\* the value it had
MergedByName(now, before, parsed) ==
    /\ Len(now) = Len(before) + Cardinality(Names(parsed) \ Names(before))
    /\ \A i \in 1..Len(before) : NameOf(now[i]) = NameOf(before[i]) /\ DOMAIN before[i] \subseteq DOMAIN now[i]
    /\ \A j \in 1..Len(parsed) : \E i \in 1..Len(now) : NameOf(now[i]) = NameOf(parsed[j]) /\ DOMAIN parsed[j] \subseteq DOMAIN now[i]
    /\ \A i \in 1..Len(now) : \A key \in DOMAIN now[i] :
          Bind(MaxOr({j \in 1..Len(parsed) : NameOf(parsed[j]) = NameOf(now[i]) /\ key \in DOMAIN parsed[j]}, 0), LAMBDA last :
          IF last # 0 THEN now[i][key] = parsed[last][key]
          ELSE i <= Len(before) /\ key \in DOMAIN before[i] /\ now[i][key] = before[i][key])

\* the Food Bank service with its phone numbers and its description
FoodBank ==
    [key \in {<<"N","a","m","e">>, <<"P","h","o","n","e"," ","N","u","m","b","e","r","s">>, <<"D","e","s","c","r","i","p","t","i","o","n">>} |->
        IF key = <<"N","a","m","e">> THEN <<"F","o","o","d"," ","B","a","n","k">> ELSE IF key = <<"P","h","o","n","e"," ","N","u","m","b","e","r","s">> THEN <<"5","5","5","-","1","1","1","1">> ELSE <<"P","r","o","v","i","d","e","s"," ","g","r","o","c","e","r","i","e","s">>]

\* C4: after any merges no two services have the same Name; the last merge
\* put each parsed service into the entry of its name, the last written
\* value winning, or appended it when the name was new; Food Bank merged
\* with its phone numbers and then with its description is one entry
C4_ServiceDedup ==
    /\ \A i, j \in 1..Len(ServicesOf(found_info)) :
          NameOf(ServicesOf(found_info)[i]) = NameOf(ServicesOf(found_info)[j]) => i = j
    /\ merged_texts # << >> =>
          Bind(ParsedServices(Last(merged_texts)), LAMBDA parsed :
          MergedByName(ServicesOf(found_info), ServicesOf(prev_found), parsed))
    /\ merged_texts = <<TextFoodPhone, TextFoodDescription>> => ServicesOf(found_info) = <<FoodBank>>

\* the two Food Bank texts were merged and left one entry with the three fields
C4_FoodBankMerged ==
    /\ merged_texts = <<TextFoodPhone, TextFoodDescription>>
    /\ Len(ServicesOf(prev_found)) = 1
    /\ Len(ServicesOf(found_info)) = 1
    /\ DOMAIN found_info[Services][1] = {<<"N","a","m","e">>, <<"P","h","o","n","e"," ","N","u","m","b","e","r","s">>, <<"D","e","s","c","r","i","p","t","i","o","n">>}

\* C5: no field of any section, and no field of any service, holds a
\* sentinel in any letter case
C5_NoSentinelStored ==
    /\ \A section \in (DOMAIN found_info) \ {Services} : \A key \in DOMAIN found_info[section] :
          Lower(found_info[section][key]) \notin Sentinels
    /\ \A i \in 1..Len(ServicesOf(found_info)) : \A key \in DOMAIN found_info[Services][i] :
          Lower(found_info[Services][i][key]) \notin Sentinels

\* C8: a field of Agency Level or Site Level is as long as every value
\* parsed for it so far, in whatever page and line, and a merge that leaves
\* its length leaves its value
C8_LongestValueKept ==
    /\ \A seen \in observed :
          seen[1] \in {AgencyLevel, SiteLevel} => Len(found_info[seen[1]][seen[2]]) >= Len(seen[3])
    /\ \A section \in {AgencyLevel, SiteLevel} \cap DOMAIN prev_found : \A key \in DOMAIN prev_found[section] :
          Len(found_info[section][key]) = Len(prev_found[section][key]) => found_info[section][key] = prev_found[section][key]

\* C9: a text merged twice in a row into the empty record leaves the
\* record its first merge left: sections, fields, values and the order of
\* the services
C9_IdempotentRemerge ==
    (Len(merged_texts) = 2 /\ merged_texts[1] = merged_texts[2]) => found_info = prev_found

\* a text with a repeated service name was merged twice
C9_MergedTwice ==
    /\ merged_texts = <<TextTwoServices, TextTwoServices>>
    /\ Len(ServicesOf(found_info)) = 2
    /\ found_info = prev_found

-----------------------------------------------------------------------------
(* Properties of the normalizer *)

\* C10: a URL and a variant of it in letter case, quotes, trailing slash or
\* repeated slashes have the same normal form, which is in lower case, ends
\* with no slash and has no // after the scheme separator
C10_NormalizationCanonical ==
    /\ norm_out[1] = norm_out[2]
    /\ norm_out[2] = Lower(norm_out[2])
    /\ norm_out[2] # << >> => Last(norm_out[2]) # "/"
    /\ Bind(SplitOnce(norm_out[2], <<":","/","/">>), LAMBDA parts : ~Contains(<<"/", "/">>, Last(parts)))

-----------------------------------------------------------------------------
(* Properties of a visit: the step that calls the oracle *)

\* C11: without a custom query, the step in which the oracle answers a
\* page leaves missing_info equal to the trimmed non-empty lines between
\* STILL_MISSING: and NEXT_URL: of the answer when the answer holds
\* STILL_MISSING:, whatever the set held before, and leaves it as it was
\* when the answer lacks the marker
C11_MissingSetReplaced ==
    [][(/\ ~custom
        /\ Len(oracle_calls') > Len(oracle_calls)
        /\ ~(Len(stack') < Len(stack) /\ result'.cause = "oracle")) =>
          IF Len(stack') < Len(stack)
          THEN missing_info' = IF Contains(MarkerStillMissing, result'.out)
                               THEN MissingItems(Slice(result'.out, MarkerStillMissing, MarkerNextUrl))
                               ELSE missing_info
          ELSE missing_info' = IF Contains(MarkerStillMissing, stack'[Len(stack)].out)
                               THEN MissingItems(Slice(stack'[Len(stack)].out, MarkerStillMissing, MarkerNextUrl))
                               ELSE missing_info]_vars

\* C12: a URL is fetched at most once in a crawl, and only when it is
\* neither visited nor failed; a call for a visited or failed URL is skipped
\* without a fetch, and the recursion calls only URLs that are neither
C12_NoRevisit ==
    [][/\ Len(fetched') > Len(fetched) =>
             /\ fetched' = Append(fetched, Top.url)
             /\ Top.url \notin visited_urls \cup failed_urls
             /\ \A i \in 1..Len(fetched) : fetched[i] # Top.url
       /\ (stack # << >> /\ Top.pc = "call" /\ Top.url \in visited_urls \cup failed_urls) =>
             /\ result'.status = "skipped"
             /\ fetched' = fetched
       /\ (stack # << >> /\ Len(stack') > Len(stack)) =>
             stack'[Len(stack')].url \notin visited_urls' \cup failed_urls']_vars

\* a page resolved its next URL to a URL already visited, and no call was made
C12_ResolvedVisited ==
    /\ stack # << >>
    /\ Top.pc = "return"
    /\ Top.resolved # << >>
    /\ Top.resolved[1] \in visited_urls
    /\ Top.next = NoneVal
    /\ Len(fetched) = Cardinality(visited_urls)
    /\ Len(fetched) >= 2

\* what is left of a crawl to do: the calls that wait, and twice the depth
\* of the call that runs
Variant(frames) ==
    IF frames = << >> THEN 0
    ELSE Len(frames) + (IF Last(frames).pc = "call" /\ Last(frames).depth > 0 THEN 2 * Last(frames).depth + 1
                        ELSE IF Last(frames).pc = "call" THEN 1 ELSE 0)

\* C13: whatever the fetcher and the oracle do, every step of a crawl
\* started with depth d makes what is left to do smaller, so the crawl ends;
\* a page calls at most one next URL, with its depth less one; there are at
\* most d fetches and d oracle calls; and each fetch after the first is of
\* the next URL of the page fetched before it
C13_BoundedChain ==
    [][stack # << >> =>
          /\ Variant(stack') < Variant(stack)
          /\ Variant(stack) <= 2 * stack[1].depth + 2 \/ stack[1].depth < 0
          /\ Len(stack') <= Len(stack) + 1
          /\ Len(stack') > Len(stack) => stack'[Len(stack')].depth = Top.depth - 1
          /\ Len(fetched') <= stack[1].depth \/ fetched' = << >>
          /\ Len(oracle_calls') <= Len(fetched')
          /\ (Len(fetched') > Len(fetched) /\ fetched # << >>) =>
                /\ Len(stack) >= 2
                /\ stack[Len(stack) - 1].url = Last(fetched)
                /\ stack[Len(stack) - 1].next = Last(fetched')]_vars

\* a crawl started with depth 2 fetched two pages and reached a call with depth 0
C13_ChainExhausted ==
    /\ Len(stack) = 3
    /\ stack[1].depth = 2
    /\ Top.depth = 0
    /\ Len(fetched) = 2
    /\ Len(oracle_calls) = 2


\* C14: a URL the resolver returns is an available link exactly as it was
\* given, or a candidate on the host of the base URL; an absolute URL on
\* another host that matches no available link gives None
C14_ResolverResultDomain ==
    res_in.base # NoneVal =>
        /\ res_out # NoneVal =>
              \/ res_out \in res_in.links
              \/ /\ \E i \in 1..3 : i <= Len(PossibleUrls(CleanUrl(res_in.url), res_in.base, res_in.current))
                                    /\ res_out = PossibleUrls(CleanUrl(res_in.url), res_in.base, res_in.current)[i]
                 /\ UrlParse(res_out).netloc = UrlParse(res_in.base).netloc
        /\ (/\ IsAbsolute(CleanUrl(res_in.url))
            /\ UrlParse(CleanUrl(res_in.url)).netloc # UrlParse(res_in.base).netloc
            /\ \A link \in res_in.links : ~LinkMatches(CleanUrl(res_in.url), link)) => res_out = NoneVal

\* the resolver returned an available link that is not in normal form, for a
\* proposed URL written differently
C14_LinkReturnedAsIs ==
    /\ res_in.base # NoneVal
    /\ res_out \in res_in.links
    /\ res_out # NormalizeUrl(res_out)
    /\ res_out # CleanUrl(res_in.url)

\* C15: the base URL is None before the first visit, is scheme://host of the
\* first URL visited from that visit on, and no later visit or failure
\* changes it
C15_BaseUrlFrozen ==
    [][/\ fetched = << >> => base_url = NoneVal
       /\ fetched' # << >> => base_url' = UrlParse(fetched'[1]).scheme \o <<":","/","/">> \o UrlParse(fetched'[1]).netloc
       /\ base_url # NoneVal => base_url' = base_url]_vars

\* a second page was visited under another scheme than the first, a visit has
\* failed, and the base URL is the one of the first page
C15_BaseKeptAcrossSchemes ==
    /\ Len(fetched) >= 2
    /\ UrlParse(Last(fetched)).scheme # UrlParse(fetched[1]).scheme
    /\ failed_urls # {}
    /\ base_url = <<"h","t","t","p",":","/","/","h">>

\* C16: no step of a crawl removes an element of the visited set, the failed
\* set or the link collection, and the links that go with a fetched page to
\* the oracle and to the resolver are the links of all the pages fetched so
\* far, each of which still has its frame
C16_MonotonicVisitState ==
    [][/\ visited_urls \subseteq visited_urls'
       /\ failed_urls \subseteq failed_urls'
       /\ all_internal_links \subseteq all_internal_links'
       /\ (Len(fetched') > Len(fetched) /\ Len(stack') >= Len(stack)) =>
             /\ Len(fetched') = Len(stack)
             /\ \A i \in 1..Len(stack) : stack'[i].pc = "return" /\ stack'[i].url = fetched'[i]
             /\ \E me \in {stack'[Len(stack)]}, pages \in {UNION {stack'[i].page : i \in 1..Len(stack)}} :
                   /\ me.links = pages
                   /\ me.links = all_internal_links'
                   /\ me.page \subseteq InternalLinks(me.url, HrefsMixed)]_vars

\* the resolver gave a link of an earlier page that the page just fetched
\* does not have
C16_EarlierLinkResolved ==
    /\ stack # << >>
    /\ Top.pc = "return"
    /\ Top.page = {}
    /\ Top.resolved # << >>
    /\ Top.resolved[1] \in Top.links
    /\ Top.resolved[1] \in stack[1].page
    /\ Len(fetched) >= 2

\* C17: the URLs resolved for the answer about a page are those the
\* resolver gives when the context candidate is built from the URL of that
\* page, the one visited last, and from no other visited URL
C17_ContextFromLatestPage ==
    [][(Len(fetched') > Len(fetched) /\ Len(stack') >= Len(stack)) =>
          \E me \in {stack'[Len(stack)]} :
             Contains(MarkerNextUrl, me.out) =>
                me.resolved \in ExtractNextUrls(me.out, me.links, base_url', {me.url})]_vars

\* C18: the report of the default mode lists under MISSING INFORMATION the
\* entries of the missing set that hold no colon, and says that all mandatory
\* information was found when no entry is left, also when the set is not
\* empty
C18_MissingRendering ==
    (result.status \in {"skipped", "error"} \/ (result.status = "ok" /\ ~custom)) =>
        /\ result.analysis.missing # {}
        /\ result.analysis.missing = IF \E item \in missing_info : \A i \in 1..Len(item) : item[i] # ":"
                                     THEN {item \in missing_info : \A i \in 1..Len(item) : item[i] # ":"}
                                     ELSE {AllFound}

\* a page was analysed, every entry of the missing set names its section,
\* and the report says that nothing is missing
C18_SectionedEntriesHidden ==
    /\ result.status = "ok"
    /\ ~custom
    /\ Cardinality(missing_info) = 2
    /\ \A item \in missing_info : Contains(<<":">>, item)
    /\ result.analysis.missing = {AllFound}

\* C19: the failed set is always part of the visited set, and the report of a
\* call that raised lists its URL among the sources
C19_FailedAreVisited ==
    /\ failed_urls \subseteq visited_urls
    /\ \A i \in 1..Len(fetched) : fetched[i] \in visited_urls
    /\ result.status = "error" =>
          /\ result.url \in failed_urls
          /\ result.url \in result.analysis.sources
    /\ result.status \in {"ok", "skipped", "error"} => failed_urls \subseteq result.analysis.sources

\* the fetch, the oracle or the parse of a page after the first raised, and
\* the outermost call has returned its report
C19_FailureReported ==
    /\ stack = << >>
    /\ result.status = "ok"
    /\ failed_urls # {}
    /\ fetched[1] \notin failed_urls
    /\ Len(oracle_calls) < Len(fetched)

\* C20: every URL visited or fetched in a crawl, and every URL about to be
\* called, is on the host of the base URL, whatever the oracle answers
C20_StaysOnStartHost ==
    stack # << >> \/ fetched # << >> =>
        \E host \in {UrlParse(IF fetched # << >> THEN fetched[1] ELSE stack[1].url).netloc} :
           /\ fetched # << >> => UrlParse(base_url).netloc = host
           /\ \A url \in visited_urls \cup failed_urls \cup all_internal_links \cup {stack[i].url : i \in 1..Len(stack)} :
                 UrlParse(url).netloc = host
           /\ \A i \in 1..Len(fetched) : fetched[i] \in visited_urls

\* the oracle named a page on another host, the resolver gave no URL for it,
\* and the crawl went no further
C20_OtherHostRefused ==
    /\ stack # << >>
    /\ Top.pc = "return"
    /\ Top.out = OutOtherHost
    /\ Top.resolved = << >>
    /\ Top.page # {}
    /\ Len(fetched) >= 2

\* C21: no merge loses what the accumulator holds: a section stays, a field
\* of Agency Level or Site Level stays and its value gets no shorter, the
\* services keep their number or grow, each keeps its place and its name, and
\* a field of a service stays in it
C21_NothingLost ==
    [][/\ DOMAIN found_info \subseteq DOMAIN found_info'
       /\ \A section \in (DOMAIN found_info) \ {Services} :
             \A key \in DOMAIN found_info[section] :
                /\ key \in DOMAIN found_info'[section]
                /\ Len(found_info'[section][key]) >= Len(found_info[section][key])
       /\ Services \in DOMAIN found_info =>
             /\ Len(found_info'[Services]) >= Len(found_info[Services])
             /\ \A i \in 1..Len(found_info[Services]) :
                   /\ DOMAIN found_info[Services][i] \subseteq DOMAIN found_info'[Services][i]
                   /\ NameOf(found_info'[Services][i]) = NameOf(found_info[Services][i])]_vars

\* the latest merge gave another value to a field of a service that holds
\* three fields, and put a new service after the others
C21_OverwrittenAndAppended ==
    /\ Services \in DOMAIN prev_found
    /\ Services \in DOMAIN found_info
    /\ Len(found_info[Services]) > Len(prev_found[Services])
    /\ \E i \in 1..Len(prev_found[Services]) :
          /\ Cardinality(DOMAIN found_info[Services][i]) >= 3
          /\ \E key \in DOMAIN prev_found[Services][i] : found_info[Services][i][key] # prev_found[Services][i][key]
====
